---- MODULE Spec2Model ----
(***************************************************************************)
(* NexusEventManager (src/src/event.manager.ts): the listener registry,   *)
(* synchronous emit, asynchronous emitAsync (sequential and concurrent)   *)
(* and the withTimeout wrapper.                                            *)
(*                                                                         *)
(* JavaScript runs one task at a time.  A synchronous stretch of code is   *)
(* split into steps only where it calls a listener handler (a handler may  *)
(* register listeners); while `sync` is TRUE no other code can run.        *)
(* Promise reactions are microtasks: each is a step of its own, and while  *)
(* one is queued no timer fires and no other task settles a promise or     *)
(* aborts the signal.  A task that settles a handler's completion may      *)
(* abort the signal before the reactions run (UnderSettle).                *)
(*                                                                         *)
(* Environment: the error sink NexusEventManager.onError records its       *)
(* arguments and returns; one emit / emitAsync call is followed at a time; *)
(* what a handler does (return, raise, return a promise, register a        *)
(* listener) is chosen freely at each call of the handler.                 *)
(***************************************************************************)
EXTENDS Integers, Sequences, FiniteSets, TLC

\* ---------------------------------------------------------------- bounds
NumListeners == 2
MaxRegs == 3
MaxFanOut == 2

\* ------------------------------------------------------------ data model
Listeners == 1..NumListeners

WS == " "
STAR == <<"*">>
KEYA == <<"a">>
KEYB == <<"b">>

\* keys as the callers of register write them (before trim)
RawKeys == { KEYA, <<WS, "a">>, STAR, <<"*", WS>> }

\* event names as the callers of emit / emitAsync write them: the keys, and
\* a name nobody registers under
RawNames == RawKeys \cup { KEYB, <<KEYB[1], WS>> }

RECURSIVE TrimStart(_)
TrimStart(s) == IF s # <<>> /\ Head(s) = WS THEN TrimStart(Tail(s)) ELSE s

RECURSIVE TrimEnd(_)
TrimEnd(s) ==
    IF s # <<>> /\ s[Len(s)] = WS THEN TrimEnd(SubSeq(s, 1, Len(s) - 1)) ELSE s

Trim(s) == TrimEnd(TrimStart(s))

Keys == { Trim(r) : r \in RawNames }

Range(s) == { s[i] : i \in 1..Len(s) }

\* an add that inserts even a value the Set already holds
SetAddAgain(set, l) == Append(set, l)

\* Set.prototype.add on an insertion-ordered Set
SetAdd(set, l) == IF l \in Range(set) THEN set ELSE Append(set, l)

\* Map.get(key): <<>> stands for undefined (a stored Set is never empty)
MapGet(map, key) == map[key]

Reverse(s) == [i \in 1..Len(s) |-> s[Len(s) + 1 - i]]

\* variant: the copy lists the newest registration first
ArrayFromNewestFirst(set) == Reverse(set)

\* Array.from(set), guarded by `!set || set.size === 0`
ArrayFrom(set) == set

\* what handler code can do when it is called
HandlerReturns == {"void", "throw", "promise"}
NoReg == [key |-> <<>>, l |-> 0]
HandlerRegs == {NoReg} \cup [key : RawKeys, l : Listeners]

\* errors are <<what, position>>: the error object of one invocation
NoErr == <<"none", 0>>

\* a sink call that counts the listeners from one
SinkFromOne(log, configured, e, n, i) ==
    IF configured
    THEN Append(log, [err |-> e, event |-> n, listenerIndex |-> i + 1])
    ELSE log

\* NexusEventManager.onError?.(e, { event: name, listenerIndex: idx })
Sink(log, configured, e, n, i) ==
    IF configured
    THEN Append(log, [err |-> e, event |-> n, listenerIndex |-> i])
    ELSE log

\* the promises behind one handler call (runOne(listener, idx) in emitAsync)
\*   under : the handler's completion p = Promise.resolve(handler(event)):
\*           "none", "threw" (no p: the handler raised), "pending",
\*           "resolved", "rejected"
\*   wrap  : the promise withTimeout returns (p itself when it passes through)
\*   then  : the p.then reactions of withTimeout: "none", "attached", "ran"
\*   timer : the setTimeout timer: "none", "armed", "fired", "cleared"
\*   sub   : onAbort is subscribed on the signal
\*   run   : the promise runOne returns: "none", "awaiting", "ok", "rejected"
\*   err   : the error wrap was rejected with (or the handler raised)
Fresh == [under |-> "none", wrap |-> "none", then |-> "none", timer |-> "none",
          sub |-> FALSE, run |-> "none", err |-> NoErr]

VARIABLES
    listeners,      \* this.listeners: key -> insertion-ordered set
    onError,        \* NexusEventManager.onError is configured
    kind,           \* call in flight: "none", "emit", "emitAsync"
    sync,           \* a synchronous stretch of the call is running
    eventName,      \* event.name as passed, until the call has gone a step
    name,           \* const name (trimmed event name) of the call
    specAtBegin,    \* listeners registered under `name` when the call began
    wildAtBegin,    \* listeners registered under `*` when the call began
    pass,           \* emit: 1 = run(specific), 2 = run(wildcard), 3 = after
    wildcardRef,    \* emit: `wildcard` is a Set (not undefined)
    arr,            \* emit: Array.from(set) of the running pass
    pos,            \* emit: position in arr of the next listener
    idx,            \* emit: let idx
    invoked,        \* handlers called by the call, in order
    sinkLog,        \* calls of onError made by the call, in order
    result,         \* outcome of the call for its caller
    failure,        \* the error the call raised to / rejected its caller with
    options,        \* emitAsync: mode, stopOnError, timeOutMs, signal
    aborted,        \* emitAsync: signal.aborted
    snapshot,       \* emitAsync: const snapshot
    next,           \* emitAsync: position of the next runOne to start
    st              \* emitAsync: per position, the promises of runOne

vars == << listeners, onError, kind, sync, eventName, name, specAtBegin,
           wildAtBegin,
           pass, wildcardRef, arr, pos, idx, invoked, sinkLog, result,
           failure, options, aborted, snapshot, next, st >>

emitVars == << pass, wildcardRef, arr, pos, idx >>

asyncVars == << options, aborted, snapshot, next, st >>

\* --------------------------------------------------------------- register
\* a register that stores a new Set holding the listener alone
RegisterIntoNewSet(map, rawKey, l) == [map EXCEPT ![Trim(rawKey)] = <<l>>]

\* register(eventName, listener)
RegisterInto(map, rawKey, l) ==
    LET key == Trim(rawKey)
        set == SetAdd(MapGet(map, key), l)
    IN  [map EXCEPT ![key] = set]

ApplyReg(map, reg) ==
    IF reg = NoReg THEN map ELSE RegisterInto(map, reg.key, reg.l)

RECURSIVE SumLen(_, _)
SumLen(map, ks) ==
    IF ks = {} THEN 0
    ELSE LET k == CHOOSE x \in ks : TRUE
         IN  Len(map[k]) + SumLen(map, ks \ {k})

\* number of (key, listener) entries of the registry
Size(map) == SumLen(map, DOMAIN map)

RegAllowed(map, reg) == Size(ApplyReg(map, reg)) <= MaxRegs

\* register called by code outside any handler: only between tasks
Register(rawKey, l) ==
    /\ ~sync
    /\ Size(RegisterInto(listeners, rawKey, l)) <= MaxRegs
    /\ listeners' = RegisterInto(listeners, rawKey, l)
    /\ eventName' = <<>>
    /\ UNCHANGED << onError, kind, sync, name, specAtBegin, wildAtBegin,
                    emitVars, invoked, sinkLog, result, failure, asyncVars >>

\* a lookup by the name exactly as passed
EventKeyAsPassed(rawName) == rawName

\* `const name = String(event.name).trim()` of emit and emitAsync
EventKey(rawName) == Trim(rawName)

\* ------------------------------------------------------------------- emit
\* variant: the catch block throws the error again
EmitRethrowsAlways(ret) == TRUE

\* variant: the catch block throws the error again when there is no sink
EmitRethrowsWithoutSink(ret) == ~onError

\* the catch block of emit's run(): a raised error is not thrown again
EmitRethrows(ret) == FALSE

\* the listeners run(wildcard) iterates: Array.from of the live Set that
\* `wildcard` referred to when emit began
WildcardArray(map, ref) == IF ref THEN ArrayFrom(MapGet(map, STAR)) ELSE <<>>

EmitBegin(rawName) ==
    /\ kind = "none"
    /\ kind' = "emit"
    /\ sync' = TRUE
    /\ name' = EventKey(rawName)
    /\ specAtBegin' = listeners[Trim(rawName)]
    /\ wildAtBegin' = listeners[STAR]
    /\ pass' = 1
    /\ arr' = ArrayFrom(MapGet(listeners, EventKey(rawName)))
    /\ wildcardRef' = (MapGet(listeners, STAR) # <<>>)
    /\ pos' = 1
    /\ idx' = 0
    /\ invoked' = <<>>
    /\ sinkLog' = <<>>
    /\ result' = "running"
    /\ failure' = NoErr
    /\ eventName' = rawName
    /\ UNCHANGED << listeners, onError, asyncVars >>

\* what `l.handler(event)` leaves behind in emit, which drops the value the
\* handler returns: nothing, or a promise no reaction is attached to
Floating(ret) ==
    [Fresh EXCEPT !.under = IF ret = "promise" THEN "pending"
                            ELSE IF ret = "throw" THEN "threw" ELSE "none"]

\* a counter that is advanced only after a handler that returned
IdxAfterReturn(i, ret) == IF ret = "throw" THEN i ELSE i + 1

\* `finally { idx++ }`: advanced after every handler, raised or not
IdxAfter(i, ret) == i + 1

\* one iteration of `for (const l of Array.from(set))`
EmitInvoke(ret, reg) ==
    /\ kind = "emit"
    /\ result = "running"
    /\ pass \in {1, 2}
    /\ pos <= Len(arr)
    /\ RegAllowed(listeners, reg)
    /\ listeners' = ApplyReg(listeners, reg)
    /\ invoked' = Append(invoked, [l |-> arr[pos], pass |-> pass, idx |-> idx,
                                   threw |-> (ret = "throw")])
    /\ sinkLog' = IF ret = "throw"
                  THEN Sink(sinkLog, onError, <<"thrown", idx + 1>>, name, idx)
                  ELSE sinkLog
    /\ result' = IF ret = "throw" /\ EmitRethrows(ret) THEN "raised"
                 ELSE "running"
    /\ failure' = IF ret = "throw" /\ EmitRethrows(ret)
                  THEN <<"thrown", idx + 1>> ELSE failure
    /\ idx' = IdxAfter(idx, ret)
    /\ pos' = pos + 1
    /\ st' = Append(st, Floating(ret))
    /\ eventName' = <<>>
    /\ UNCHANGED << onError, kind, sync, name, specAtBegin, wildAtBegin, pass,
                    wildcardRef, arr, options, aborted, snapshot, next >>

\* run(specific) is over: `if (wildcard) run(wildcard)`
EmitNextPass ==
    /\ kind = "emit"
    /\ result = "running"
    /\ pass = 1
    /\ pos > Len(arr)
    /\ pass' = 2
    /\ arr' = WildcardArray(listeners, wildcardRef)
    /\ pos' = 1
    /\ eventName' = <<>>
    /\ UNCHANGED << listeners, onError, kind, sync, name,
                    specAtBegin, wildAtBegin, wildcardRef, idx, invoked,
                    sinkLog, result, failure, asyncVars >>

\* emit returns to its caller
EmitReturn ==
    /\ kind = "emit"
    /\ result = "running"
    /\ pass = 2
    /\ pos > Len(arr)
    /\ pass' = 3
    /\ sync' = FALSE
    /\ result' = "returned"
    /\ eventName' = <<>>
    /\ UNCHANGED << listeners, onError, kind, name, specAtBegin, wildAtBegin,
                    wildcardRef, arr, pos, idx, invoked, sinkLog, failure,
                    asyncVars >>

\* -------------------------------------------------------------- emitAsync
Modes == {"sequential", "concurrent"}

\* timeOutMs as passed by the caller: absent, or a positive finite number of
\* milliseconds
TimeOuts == {"undefined", "100"}

\* signal: absent (FALSE), or an AbortSignal (TRUE)
OptionSets == [mode : Modes, stopOnError : BOOLEAN, timeOutMs : TimeOuts,
               signal : BOOLEAN]

\* `mode = 'sequential', stopOnError = false` and nothing else
DefaultOptions == [mode |-> "sequential", stopOnError |-> FALSE,
                   timeOutMs |-> "undefined", signal |-> FALSE]

\* JavaScript truthiness of timeoutMs, and Number.isFinite(timeoutMs)
Truthy(t) == t \in {"100", "Infinity"}
IsFinite(t) == t \in {"0", "100"}

\* [...Array.from(specific), ...Array.from(wildcard)]
BuildSnapshot(map, n) ==
    ArrayFrom(MapGet(map, n)) \o ArrayFrom(MapGet(map, STAR))

\* variant: sequential mode throws again whatever stopOnError is
RunOneRethrowsSequential(mode, stopOnError) == mode = "sequential"

\* variant: the catch block never throws again
RunOneNeverRethrows(mode, stopOnError) == FALSE

\* variant: stopOnError throws again whatever the mode is
RunOneRethrowsAnyMode(mode, stopOnError) == stopOnError

\* variant: with no sink to report to, the catch block throws again
RunOneRethrowsWithoutSink(mode, stopOnError) ==
    ~onError \/ (mode = "sequential" /\ stopOnError)

\* runOne's catch block: `if (mode === 'sequential' && stopOnError) throw e`
RunOneRethrows(mode, stopOnError) == mode = "sequential" /\ stopOnError

\* `if (!timeoutMs && !signal) return p`
PassThrough(opts) == ~Truthy(opts.timeOutMs) /\ ~opts.signal

\* variant: the wrapper never sets a timer
SetsTimerNever(opts) == FALSE

\* `if (timeoutMs && Number.isFinite(timeoutMs)) timer = setTimeout(...)`
SetsTimer(opts) == Truthy(opts.timeOutMs) /\ IsFinite(opts.timeOutMs)

Settled(p) == p \in {"resolved", "rejected"}

\* clearTimeout(timer)
ClearTimeout(t) == IF t = "armed" THEN "cleared" ELSE t

\* a reject that overwrites an outcome already settled
RejectAgain(s, e) == [s EXCEPT !.wrap = "rejected", !.err = e]

\* reject(e) / resolve(v) of the promise withTimeout made: only the first
\* call settles it
Reject(s, e) ==
    IF s.wrap = "pending" THEN [s EXCEPT !.wrap = "rejected", !.err = e] ELSE s

\* a resolve that overwrites an outcome already settled
ResolveAgain(s) == [s EXCEPT !.wrap = "resolved"]

Resolve(s) == IF s.wrap = "pending" THEN [s EXCEPT !.wrap = "resolved"] ELSE s

\* an abort listener that rejects and leaves the timer alone
OnAbortKeepsTimer(s, i) == Reject(s, <<"Aborted", i>>)

\* onAbort: clearTimeout(timer); reject(new Error('Aborted'))
OnAbort(s, i) ==
    Reject([s EXCEPT !.timer = ClearTimeout(@)], <<"Aborted", i>>)

\* a wrapper that subscribes to the token without looking at signal.aborted
WithTimeoutUnchecked(s, u, opts, isAborted, i) ==
    IF PassThrough(opts)
    THEN [s EXCEPT !.under = u, !.wrap = u]
    ELSE [s EXCEPT !.under = u, !.wrap = "pending",
                   !.sub = opts.signal,
                   !.timer = IF SetsTimer(opts) THEN "armed" ELSE "none",
                   !.then = "attached"]

\* withTimeout(p, timeOutMs, signal) up to its return, p being in state `u`
WithTimeout(s, u, opts, isAborted, i) ==
    IF PassThrough(opts)
    THEN [s EXCEPT !.under = u, !.wrap = u]
    ELSE IF opts.signal /\ isAborted
    THEN OnAbort([s EXCEPT !.under = u, !.wrap = "pending"], i)
    ELSE [s EXCEPT !.under = u, !.wrap = "pending",
                   !.sub = opts.signal,
                   !.timer = IF SetsTimer(opts) THEN "armed" ELSE "none",
                   !.then = "attached"]

\* the handler's completion p settles; when p is what withTimeout returned,
\* that is the wrapped outcome too
SettleUnder(s, outcome, i) ==
    IF s.then = "none" /\ s.wrap = "pending"
    THEN [s EXCEPT !.under = outcome, !.wrap = outcome,
                   !.err = IF outcome = "rejected" THEN <<"rejected", i>>
                           ELSE @]
    ELSE [s EXCEPT !.under = outcome]

\* the reactions of p.then(v => ..., e => ...) in withTimeout
ThenCallbacks(s, i) ==
    LET t == [s EXCEPT !.then = "ran", !.timer = ClearTimeout(@),
                       !.sub = FALSE]
    IN  IF s.under = "resolved" THEN Resolve(t)
        ELSE Reject(t, <<"rejected", i>>)

\* the setTimeout callback: reject(new Error('Timeout'))
TimerCallback(s, i) == Reject([s EXCEPT !.timer = "fired"], <<"Timeout", i>>)

\* a promise reaction of runOne / withTimeout is queued
ReactionQueued(s) ==
    \/ s.then = "attached" /\ Settled(s.under)
    \/ s.run = "awaiting" /\ Settled(s.wrap)

\* variant: Promise.race in place of Promise.all
PromiseRace(runs) ==
    IF \E i \in 1..Len(runs) : runs[i] = "rejected" THEN "rejected"
    ELSE IF \E i \in 1..Len(runs) : runs[i] = "ok" THEN "resolved"
    ELSE "pending"

\* Promise.all over the runOne promises: "rejected" as soon as one of them
\* is rejected, "resolved" once all are resolved, else "pending"
PromiseAll(runs) ==
    IF \E i \in 1..Len(runs) : runs[i] = "rejected" THEN "rejected"
    ELSE IF \A i \in 1..Len(runs) : runs[i] = "ok" THEN "resolved"
    ELSE "pending"

\* variant: the loop is over once the last runOne was called
SeqLoopUnawaited(runs, nxt) ==
    IF nxt > 1 /\ runs[nxt - 1] = "rejected" THEN "rejected"
    ELSE IF nxt > Len(runs) THEN "resolved"
    ELSE "pending"

\* the sequential loop `await runOne(snapshot[i], i)`: a runOne that
\* rejected ends the call, the end of the loop resolves it
SeqLoop(runs, nxt) ==
    IF nxt > 1 /\ runs[nxt - 1] = "rejected" THEN "rejected"
    ELSE IF nxt > Len(runs) /\ (nxt = 1 \/ runs[nxt - 1] = "ok")
    THEN "resolved"
    ELSE "pending"

Runs == [i \in 1..Len(st) |-> st[i].run]

\* what the promise emitAsync returned can settle to now
Outcome ==
    IF options.mode = "sequential" THEN SeqLoop(Runs, next)
    ELSE PromiseAll(Runs)

\* variant: the loop goes on to the next runOne without awaiting the last
SeqContinuesUnawaited ==
    /\ options.mode = "sequential"
    /\ next > 1
    /\ next <= Len(snapshot)

\* the sequential loop can go on with the next runOne
SeqContinues ==
    /\ options.mode = "sequential"
    /\ next > 1
    /\ next <= Len(snapshot)
    /\ st[next - 1].run = "ok"

\* some promise reaction (microtask) of the call is queued; the microtask
\* queue is emptied before another task (a timer, other callers) runs
MicrotaskQueued ==
    \/ \E i \in 1..Len(st) : ReactionQueued(st[i])
    \/ /\ kind = "emitAsync"
       /\ result = "running"
       /\ ~sync
       /\ (SeqContinues \/ Outcome # "pending")

AsyncBegin(rawName, opts, isAborted) ==
    /\ kind = "none"
    /\ opts.signal \/ ~isAborted
    /\ Len(BuildSnapshot(listeners, EventKey(rawName))) <= MaxFanOut
    /\ kind' = "emitAsync"
    /\ name' = EventKey(rawName)
    /\ specAtBegin' = listeners[Trim(rawName)]
    /\ wildAtBegin' = listeners[STAR]
    /\ options' = opts
    /\ aborted' = isAborted
    /\ snapshot' = BuildSnapshot(listeners, EventKey(rawName))
    /\ sync' = (snapshot' # <<>>)
    /\ next' = 1
    /\ st' = [i \in 1..Len(snapshot') |-> Fresh]
    /\ invoked' = <<>>
    /\ sinkLog' = <<>>
    /\ result' = "running"
    /\ failure' = NoErr
    /\ eventName' = rawName
    /\ UNCHANGED << listeners, onError, emitVars >>

\* variant: position i is read from the registry as it is now
ListenerAtLive(snap, map, n, i) ==
    LET live == BuildSnapshot(map, n)
    IN  IF i <= Len(live) THEN live[i] ELSE snap[i]

\* the listener runOne is called with for position i: snapshot[i]
ListenerAt(snap, map, n, i) == snap[i]

\* variant: a handler that raises ends the mapping over the snapshot
MapStopsAtRaise(mode, nxt, len, threw) ==
    mode = "concurrent" /\ nxt <= len /\ ~threw

\* `snapshot.map((l, i) => runOne(l, i))`: the synchronous stretch goes on
\* to position nxt, whether or not the handler before it raised (runOne
\* catches); the sequential loop suspends at its await instead
MapGoesOn(mode, nxt, len, threw) == mode = "concurrent" /\ nxt <= len

\* runOne(snapshot[i], i) up to its await: the handler is called and its
\* completion is wrapped; a handler that throws goes to the catch block
AsyncStart(ret, reg) ==
    /\ kind = "emitAsync"
    /\ result = "running"
    /\ next <= Len(snapshot)
    /\ IF options.mode = "sequential"
       THEN (next = 1 /\ sync) \/ (~sync /\ SeqContinues)
       ELSE sync
    /\ RegAllowed(listeners, reg)
    /\ listeners' = ApplyReg(listeners, reg)
    /\ invoked' = Append(invoked,
                         [l |-> ListenerAt(snapshot, listeners, name, next),
                          pass |-> IF next <= Len(specAtBegin) THEN 1 ELSE 2,
                          idx |-> next - 1, threw |-> (ret = "throw")])
    /\ IF ret = "throw"
       THEN /\ sinkLog' = Sink(sinkLog, onError, <<"thrown", next>>, name,
                               next - 1)
            /\ st' = [st EXCEPT ![next] =
                        [@ EXCEPT !.under = "threw",
                                  !.err = <<"thrown", next>>,
                                  !.run = IF RunOneRethrows(options.mode,
                                                            options.stopOnError)
                                          THEN "rejected" ELSE "ok"]]
       ELSE /\ sinkLog' = sinkLog
            /\ st' = [st EXCEPT ![next] =
                        [WithTimeout(@, IF ret = "void" THEN "resolved"
                                        ELSE "pending",
                                     options, aborted, next)
                         EXCEPT !.run = "awaiting"]]
    /\ next' = next + 1
    /\ sync' = MapGoesOn(options.mode, next', Len(snapshot), ret = "throw")
    /\ eventName' = <<>>
    /\ UNCHANGED << onError, kind, name, specAtBegin, wildAtBegin, emitVars,
                    options, aborted, snapshot, result, failure >>

\* a task of the handler's own code settles its completion; the same task
\* may go on to abort the signal before any promise reaction runs
UnderSettle(i, outcome, alsoAbort) ==
    /\ ~sync
    /\ ~MicrotaskQueued
    /\ i \in 1..Len(st)
    /\ st[i].under = "pending"
    /\ alsoAbort => (options.signal /\ ~aborted)
    /\ aborted' = (aborted \/ alsoAbort)
    /\ LET settled == [st EXCEPT ![i] = SettleUnder(@, outcome, i)]
       IN  st' = IF alsoAbort
                 THEN [j \in 1..Len(st) |->
                         IF settled[j].sub THEN OnAbort(settled[j], j)
                         ELSE settled[j]]
                 ELSE settled
    /\ eventName' = <<>>
    /\ UNCHANGED << listeners, onError, kind, sync, name, specAtBegin,
                    wildAtBegin, emitVars, invoked, sinkLog, result, failure,
                    options,                     snapshot, next >>

\* microtask: the reactions withTimeout attached with p.then(...)
ThenReaction(i) ==
    /\ ~sync
    /\ i \in 1..Len(st)
    /\ st[i].then = "attached"
    /\ Settled(st[i].under)
    /\ st' = [st EXCEPT ![i] = ThenCallbacks(@, i)]
    /\ eventName' = <<>>
    /\ UNCHANGED << listeners, onError, kind, sync, name, specAtBegin,
                    wildAtBegin, emitVars, invoked, sinkLog, result, failure,
                    options,                     aborted, snapshot, next >>

\* one timer for the whole call: when it fires, every position still timed
\* is rejected
TimerFireAll(i) ==
    /\ ~sync
    /\ ~MicrotaskQueued
    /\ i \in 1..Len(st)
    /\ st[i].timer = "armed"
    /\ st' = [j \in 1..Len(st) |->
                IF st[j].timer = "armed" THEN TimerCallback(st[j], j)
                ELSE st[j]]
    /\ eventName' = <<>>
    /\ UNCHANGED << listeners, onError, kind, sync, name, specAtBegin,
                    wildAtBegin, emitVars, invoked, sinkLog, result, failure,
                    options, aborted, snapshot, next >>

\* task: the timer of position i fires
TimerFire(i) ==
    /\ ~sync
    /\ ~MicrotaskQueued
    /\ i \in 1..Len(st)
    /\ st[i].timer = "armed"
    /\ st' = [st EXCEPT ![i] = TimerCallback(@, i)]
    /\ eventName' = <<>>
    /\ UNCHANGED << listeners, onError, kind, sync, name, specAtBegin,
                    wildAtBegin, emitVars, invoked, sinkLog, result, failure,
                    options,                     aborted, snapshot, next >>

\* task: the owner of the signal aborts it; the subscribed onAbort run
Abort ==
    /\ ~sync
    /\ ~MicrotaskQueued
    /\ kind = "emitAsync"
    /\ options.signal
    /\ ~aborted
    /\ aborted' = TRUE
    /\ st' = [i \in 1..Len(st) |->
                IF st[i].sub THEN OnAbort(st[i], i) ELSE st[i]]
    /\ eventName' = <<>>
    /\ UNCHANGED << listeners, onError, kind, sync, name, specAtBegin,
                    wildAtBegin, emitVars, invoked, sinkLog, result, failure,
                    options,                     snapshot, next >>

\* microtask: runOne after its await: done, or the catch block
RunOneResume(i) ==
    /\ ~sync
    /\ i \in 1..Len(st)
    /\ st[i].run = "awaiting"
    /\ Settled(st[i].wrap)
    /\ IF st[i].wrap = "resolved"
       THEN /\ st' = [st EXCEPT ![i].run = "ok"]
            /\ sinkLog' = sinkLog
       ELSE /\ sinkLog' = Sink(sinkLog, onError, st[i].err, name, i - 1)
            /\ st' = [st EXCEPT ![i].run =
                        IF RunOneRethrows(options.mode, options.stopOnError)
                        THEN "rejected" ELSE "ok"]
    /\ eventName' = <<>>
    /\ UNCHANGED << listeners, onError, kind, sync, name, specAtBegin,
                    wildAtBegin, emitVars, invoked, result, failure, options,
                    aborted,                     snapshot, next >>

\* microtask: the promise emitAsync returned settles
AsyncSettle ==
    /\ kind = "emitAsync"
    /\ result = "running"
    /\ ~sync
    /\ Outcome # "pending"
    /\ result' = Outcome
    /\ IF Outcome = "rejected"
       THEN \E i \in 1..Len(st) :
                /\ st[i].run = "rejected"
                /\ failure' = st[i].err
       ELSE failure' = failure
    /\ eventName' = <<>>
    /\ UNCHANGED << listeners, onError, kind, sync, name, specAtBegin,
                    wildAtBegin, emitVars, invoked, sinkLog, asyncVars >>

\* the caller goes on after the call; what the call left behind is dropped
CallOver ==
    /\ kind # "none"
    /\ result \in {"returned", "raised", "resolved", "rejected"}
    /\ kind' = "none"
    /\ sync' = FALSE
    /\ name' = <<>>
    /\ specAtBegin' = <<>>
    /\ wildAtBegin' = <<>>
    /\ pass' = 3
    /\ wildcardRef' = FALSE
    /\ arr' = <<>>
    /\ pos' = 1
    /\ idx' = 0
    /\ invoked' = <<>>
    /\ sinkLog' = <<>>
    /\ result' = "none"
    /\ failure' = NoErr
    /\ options' = DefaultOptions
    /\ aborted' = FALSE
    /\ snapshot' = <<>>
    /\ next' = 1
    /\ st' = <<>>
    /\ eventName' = <<>>
    /\ UNCHANGED << listeners, onError >>

\* ---------------------------------------------------------- specification
Init ==
    /\ listeners = [k \in RawNames |-> <<>>]
    /\ onError \in BOOLEAN
    /\ kind = "none"
    /\ sync = FALSE
    /\ eventName = <<>>
    /\ name = <<>>
    /\ specAtBegin = <<>>
    /\ wildAtBegin = <<>>
    /\ pass = 3
    /\ wildcardRef = FALSE
    /\ arr = <<>>
    /\ pos = 1
    /\ idx = 0
    /\ invoked = <<>>
    /\ sinkLog = <<>>
    /\ result = "none"
    /\ failure = NoErr
    /\ options = DefaultOptions
    /\ aborted = FALSE
    /\ snapshot = <<>>
    /\ next = 1
    /\ st = <<>>

Next ==
    \/ \E r \in RawKeys, l \in Listeners : Register(r, l)
    \/ \E r \in RawNames : EmitBegin(r)
    \/ \E ret \in HandlerReturns, reg \in HandlerRegs : EmitInvoke(ret, reg)
    \/ EmitNextPass
    \/ EmitReturn
    \/ \E r \in RawNames, o \in OptionSets, a \in BOOLEAN : AsyncBegin(r, o, a)
    \/ \E ret \in HandlerReturns, reg \in HandlerRegs : AsyncStart(ret, reg)
    \/ \E i \in 1..Len(st), o \in {"resolved", "rejected"}, ab \in BOOLEAN :
          UnderSettle(i, o, ab)
    \/ \E i \in 1..Len(st) : ThenReaction(i)
    \/ \E i \in 1..Len(st) : TimerFire(i)
    \/ Abort
    \/ \E i \in 1..Len(st) : RunOneResume(i)
    \/ AsyncSettle
    \/ CallOver

Spec == Init /\ [][Next]_vars

\* the raw key a listener is registered under in the key-comparison runs
RegKey(l) == IF l = 1 THEN <<WS, "a">> ELSE <<"*", WS>>

\* every call, in a program that registers each listener under its own
\* untrimmed key only and whose handlers do not register
NextKeys ==
    \/ \E l \in Listeners : Register(RegKey(l), l)
    \/ \E r \in RawNames : EmitBegin(r)
    \/ \E ret \in HandlerReturns : EmitInvoke(ret, NoReg)
    \/ EmitNextPass
    \/ EmitReturn
    \/ \E r \in RawNames, o \in OptionSets, a \in BOOLEAN : AsyncBegin(r, o, a)
    \/ \E ret \in HandlerReturns : AsyncStart(ret, NoReg)
    \/ \E i \in 1..Len(st), o \in {"resolved", "rejected"}, ab \in BOOLEAN :
          UnderSettle(i, o, ab)
    \/ \E i \in 1..Len(st) : ThenReaction(i)
    \/ \E i \in 1..Len(st) : TimerFire(i)
    \/ Abort
    \/ \E i \in 1..Len(st) : RunOneResume(i)
    \/ AsyncSettle
    \/ CallOver

SpecKeys == Init /\ [][NextKeys]_vars

\* scheduling: the running code and the queued promise reactions always run
\* on; a timer that is due fires; nothing makes a handler's completion
\* settle, the token be signalled or the program make another call
Fairness ==
    /\ WF_vars(\E ret \in HandlerReturns : AsyncStart(ret, NoReg))
    /\ WF_vars(\E i \in 1..Len(st) : ThenReaction(i))
    /\ WF_vars(\E i \in 1..Len(st) : RunOneResume(i))
    /\ WF_vars(AsyncSettle)
    /\ WF_vars(\E i \in 1..Len(st) : TimerFire(i))

SpecFair == Init /\ [][NextKeys]_vars /\ Fairness

\* the synchronous part alone: register and emit, no promise settling
NextEmit ==
    \/ \E r \in RawKeys, l \in Listeners : Register(r, l)
    \/ \E r \in RawNames : EmitBegin(r)
    \/ \E ret \in HandlerReturns, reg \in HandlerRegs : EmitInvoke(ret, reg)
    \/ EmitNextPass
    \/ EmitReturn
    \/ CallOver

SpecEmit == Init /\ [][NextEmit]_vars

\* ------------------------------------------------------------- properties
InvokedListeners == [i \in 1..Len(invoked) |-> invoked[i].l]

IsPrefix(s, t) == Len(s) <= Len(t) /\ SubSeq(t, 1, Len(s)) = s

Min(a, b) == IF a <= b THEN a ELSE b

\* number of calls of l's handler made by run(specific) (p = 1) or by
\* run(wildcard) (p = 2)
Calls(p, l) ==
    Cardinality({ i \in 1..Len(invoked) :
                    invoked[i].pass = p /\ invoked[i].l = l })

\* number of calls of l's handler made by the call
AllCalls(l) == Cardinality({ i \in 1..Len(invoked) : invoked[i].l = l })

Throws == Cardinality({ i \in 1..Len(invoked) : invoked[i].threw })

\* the invocation at position i failed: the handler raised, or its wrapped
\* outcome was rejected (by the handler, the timeout or the abort)
Failed(i) == st[i].under = "threw" \/ st[i].wrap = "rejected"

\* the wrapped outcome of position i is no longer pending
WrappedSettled(i) == st[i].under = "threw" \/ Settled(st[i].wrap)

SinkCalls(i) ==
    Cardinality({ j \in 1..Len(sinkLog) : sinkLog[j].listenerIndex = i - 1 })

Sequential == kind = "emitAsync" /\ options.mode = "sequential"
Concurrent == kind = "emitAsync" /\ options.mode = "concurrent"

\* C1: in every emit and emitAsync call the handlers are started in this
\* order: first the listeners registered under the event's key, in the order
\* they were registered, then the listeners registered under `*`, in the
\* order they were registered.
C1_StartOrder ==
    kind # "none" =>
        LET ls == InvokedListeners
            k == Min(Len(ls), Len(specAtBegin))
        IN  /\ SubSeq(ls, 1, k) = SubSeq(specAtBegin, 1, k)
            /\ IsPrefix(SubSeq(ls, k + 1, Len(ls)), listeners[STAR])
            /\ (~sync /\ result # "rejected" /\ Concurrent)
                   => Len(ls) >= Len(specAtBegin) + Len(wildAtBegin)
            /\ result = "returned"
                   => Len(ls) >= Len(specAtBegin) + Len(wildAtBegin)

C1_Witness ==
    /\ kind = "emit"
    /\ result = "returned"
    /\ name # STAR
    /\ specAtBegin = <<2, 1>>
    /\ wildAtBegin = <<1>>
    /\ InvokedListeners = <<2, 1, 1>>

\* C2: when the event's key is `*`, every listener registered under `*` is
\* invoked exactly once by the emit or emitAsync call.
C2_WildcardKeyOnce ==
    (kind # "none" /\ name = STAR /\ result \in {"returned", "resolved"})
        => \A l \in Range(wildAtBegin) : AllCalls(l) = 1

\* C3: in emit a handler that raises stops nothing: once the call is over,
\* run(specific) has invoked every listener of the specific set exactly once
\* and run(wildcard) every listener of the wildcard set exactly once.
C3_EmitIsolation ==
    kind = "emit" =>
        /\ pass >= 2 => \A l \in Range(specAtBegin) : Calls(1, l) = 1
        /\ result # "running" =>
               /\ \A l \in Range(specAtBegin) : Calls(1, l) = 1
               /\ \A l \in Range(wildAtBegin) : Calls(2, l) = 1

C3_Witness ==
    /\ kind = "emit"
    /\ result = "returned"
    /\ Len(invoked) = 3
    /\ invoked[1].threw
    /\ invoked[2].pass = 1
    /\ ~invoked[2].threw
    /\ invoked[3].pass = 2
    /\ invoked[3].threw

\* C4: emit never raises to its caller, with or without an error sink: every
\* failure goes to the sink when there is one and is dropped when there is
\* none.
C4_EmitNeverRaises ==
    kind = "emit" =>
        /\ result # "raised"
        /\ failure = NoErr
        /\ Len(sinkLog) = IF onError THEN Throws ELSE 0

C4_Witness ==
    /\ kind = "emit"
    /\ result = "returned"
    /\ ~onError
    /\ Throws = 2

C6_StopOnError ==
    (Sequential /\ options.stopOnError) =>
        /\ \A i \in 1..Len(st) : Failed(i) => Len(invoked) = i
        /\ result = "resolved" => \A i \in 1..Len(st) : ~Failed(i)
        /\ result = "rejected" =>
               LET i == Len(invoked)
               IN  /\ i >= 1
                   /\ Failed(i)
                   /\ failure = st[i].err
                   /\ onError =>
                          /\ sinkLog # <<>>
                          /\ sinkLog[Len(sinkLog)] =
                                 [err |-> st[i].err, event |-> name,
                                  listenerIndex |-> i - 1]

C6_Witness ==
    /\ Sequential
    /\ options.stopOnError
    /\ onError
    /\ result = "rejected"
    /\ Len(snapshot) = 2
    /\ Len(invoked) = 1
    /\ failure = <<"rejected", 1>>

\* C7: a concurrent emitAsync call settles only when the wrapped outcome of
\* every position of its snapshot has settled.
C7_ConcurrentJoin ==
    (Concurrent /\ result \in {"resolved", "rejected"}) =>
        /\ Len(invoked) = Len(snapshot)
        /\ \A i \in 1..Len(snapshot) : WrappedSettled(i)

C7_Witness ==
    /\ Concurrent
    /\ result = "resolved"
    /\ Len(snapshot) = 2
    /\ st[1].err[1] = "Timeout"
    /\ st[2].wrap = "resolved"
    /\ st[2].then = "ran"

\* C8: a concurrent emitAsync call never fails, and what it does is the same
\* for both values of stopOnError: every position is invoked, no runOne is
\* rejected, and the sink is called once for each failed position.
C8_ConcurrentNeverFails ==
    Concurrent =>
        /\ result # "rejected"
        /\ failure = NoErr
        /\ \A i \in 1..Len(st) : st[i].run # "rejected"
        /\ ~sync => Len(invoked) = Len(snapshot)
        /\ \A i \in 1..Len(st) :
               SinkCalls(i) = IF onError /\ Failed(i) /\ st[i].run = "ok"
                              THEN 1 ELSE 0

C8_Witness ==
    /\ Concurrent
    /\ options.stopOnError
    /\ onError
    /\ result = "resolved"
    /\ Len(snapshot) = 2
    /\ st[1].under = "threw"
    /\ st[2].err[1] = "Aborted"
    /\ Len(sinkLog) = 2

\* C9: an emit call invokes exactly the specific and wildcard listeners that
\* were registered when it began, whatever its handlers register meanwhile.
C9_EmitSnapshot ==
    (kind = "emit" /\ result = "returned")
        => InvokedListeners = specAtBegin \o wildAtBegin

\* C10: an emitAsync call invokes the listeners of the snapshot of the moment
\* it began, in that order, whatever is registered while it is in flight.
C10_AsyncSnapshot ==
    kind = "emitAsync" =>
        /\ IsPrefix(InvokedListeners, specAtBegin \o wildAtBegin)
        /\ result = "resolved"
               => InvokedListeners = specAtBegin \o wildAtBegin

C10_Witness ==
    /\ kind = "emitAsync"
    /\ result = "resolved"
    /\ name # STAR
    /\ specAtBegin = <<1>>
    /\ wildAtBegin = <<1>>
    /\ listeners[name] = <<1, 2>>
    /\ InvokedListeners = <<1, 1>>

\* no listener occurs twice in the sequence
NoDuplicates(set) ==
    \A i, j \in 1..Len(set) : set[i] = set[j] => i = j

\* C11: registration is idempotent: a key's set never holds the same
\* listener twice, a set changes only by a listener it did not hold being put
\* after all the others (so registering a listener the key already has
\* changes nothing), and the order of a set stays the order in which its
\* listeners were first registered.
C11_IdempotentRegister ==
    [][\A k \in Keys :
          /\ NoDuplicates(listeners[k])
          /\ NoDuplicates(listeners'[k])
          /\ listeners'[k] # listeners[k]
                 => \E l \in Listeners \ Range(listeners[k]) :
                        listeners'[k] = Append(listeners[k], l)]_vars

C11_Witness ==
    /\ listeners[KEYA] = <<2, 1>>
    /\ listeners[STAR] = <<1>>
    /\ kind = "none"

\* runOne has caught the failure of position i
Caught(i) == Failed(i) /\ st[i].run \in {"ok", "rejected"}

\* C12: in an emitAsync call with a sink configured, every failure of a
\* listener (its handler raised, its completion rejected, its timeout
\* elapsed, the token was signalled) is passed to the sink exactly once, with
\* the trimmed event key and with listenerIndex the zero-based position of the
\* listener in the combined snapshot; a listener that succeeds causes no sink
\* call.
C12_AsyncSinkOncePerFailure ==
    (kind = "emitAsync" /\ onError) =>
        /\ name \in Keys
        /\ \A i \in 1..Len(st) :
               SinkCalls(i) = IF Caught(i) THEN 1 ELSE 0
        /\ \A j \in 1..Len(sinkLog) :
               LET i == sinkLog[j].listenerIndex + 1
               IN  /\ i \in 1..Len(st)
                   /\ invoked[i].l = snapshot[i]
                   /\ Caught(i)
                   /\ sinkLog[j].event = name
                   /\ sinkLog[j].err[2] = i
                   /\ sinkLog[j].err[1] = IF st[i].under = "threw"
                                          THEN "thrown" ELSE st[i].err[1]

C12_Witness ==
    /\ kind = "emitAsync"
    /\ onError
    /\ result = "resolved"
    /\ Len(snapshot) = 2
    /\ st[1].wrap = "resolved"
    /\ st[2].wrap = "rejected"
    /\ sinkLog = << [err |-> <<"rejected", 2>>, event |-> name,
                     listenerIndex |-> 1] >>

\* the positions of `invoked` whose handler raised, in increasing order
RECURSIVE ThrowPositions(_)
ThrowPositions(n) ==
    IF n = 0 THEN <<>>
    ELSE IF invoked[n].threw
         THEN Append(ThrowPositions(n - 1), n)
         ELSE ThrowPositions(n - 1)

\* C13: in an emit call with a sink configured the sink is called exactly
\* once for every handler that raised, in the order the handlers ran, with
\* the event key and with listenerIndex the zero-based position of that
\* handler in the order of execution, counted through the specific pass and
\* on through the wildcard pass.
C13_EmitSinkIndex ==
    (kind = "emit" /\ onError) =>
        LET ps == ThrowPositions(Len(invoked))
        IN  /\ Len(sinkLog) = Len(ps)
            /\ \A j \in 1..Len(ps) :
                   /\ sinkLog[j].listenerIndex = ps[j] - 1
                   /\ sinkLog[j].event = name
                   /\ sinkLog[j].err = <<"thrown", ps[j]>>

C13_Witness ==
    /\ kind = "emit"
    /\ onError
    /\ result = "returned"
    /\ name # STAR
    /\ Len(specAtBegin) = 2
    /\ Len(invoked) = 3
    /\ invoked[1].threw
    /\ ~invoked[2].threw
    /\ invoked[3].threw
    /\ invoked[3].pass = 2
    /\ Len(sinkLog) = 2
    /\ sinkLog[2].listenerIndex = 2

\* a step inside one emitAsync call whose listeners go through the
\* withTimeout wrapper (a timeout or a token was supplied)
WrappedStep ==
    /\ kind = "emitAsync"
    /\ kind' = "emitAsync"
    /\ ~PassThrough(options)
    /\ Len(st') = Len(st)

\* what the step did to position i, read off the change of state
ThenRanNow(i) == st[i].then = "attached" /\ st'[i].then = "ran"
TimerFiredNow(i) == st[i].timer = "armed" /\ st'[i].timer = "fired"
AbortedNow(i) == ~aborted /\ aborted' /\ st[i].sub

\* the wrapped outcome of position i is settled once and for all, and what
\* settles it is the first callback of withTimeout to run
SettledByFirstCallback(i) ==
    /\ Settled(st[i].wrap)
           => st'[i].wrap = st[i].wrap /\ st'[i].err = st[i].err
    /\ (st[i].wrap = "none" /\ Settled(st'[i].wrap))
           => /\ options.signal /\ aborted
              /\ st'[i].wrap = "rejected"
              /\ st'[i].err = <<"Aborted", i>>
    /\ (st[i].wrap = "pending" /\ ThenRanNow(i))
           => /\ st'[i].wrap = st[i].under
              /\ st'[i].err = IF st[i].under = "rejected"
                              THEN <<"rejected", i>> ELSE st[i].err
    /\ (st[i].wrap = "pending" /\ TimerFiredNow(i))
           => st'[i].wrap = "rejected" /\ st'[i].err = <<"Timeout", i>>
    /\ (st[i].wrap = "pending" /\ AbortedNow(i))
           => st'[i].wrap = "rejected" /\ st'[i].err = <<"Aborted", i>>
    /\ (st[i].wrap = "pending" /\ Settled(st'[i].wrap))
           => ThenRanNow(i) \/ TimerFiredNow(i) \/ AbortedNow(i)

\* C14 as stated: with a timeout or a token supplied, the wrapped outcome
\* settles exactly once and is that of whichever of three events happens
\* first: the underlying outcome settling (its value or error), the timeout
\* elapsing (timeout error), the token being signalled (abort error); an
\* event after the first never changes it. So once the underlying outcome
\* has settled with the wrapped one still pending, the wrapped outcome is the
\* underlying one.
C14_FirstEventWins ==
    [][WrappedStep =>
          \A i \in 1..Len(st) :
              /\ SettledByFirstCallback(i)
              /\ (st[i].wrap = "pending" /\ Settled(st'[i].under)
                     /\ Settled(st'[i].wrap))
                    => /\ st'[i].wrap = st'[i].under
                       /\ st'[i].err[1] \notin {"Timeout", "Aborted"}]_vars

\* C14 amended: with a timeout or a token supplied, the wrapped outcome
\* settles exactly once, by whichever of three callbacks runs first: the
\* reaction to the underlying outcome (queued when that outcome settles; it
\* gives the underlying value or error), the timer callback (timeout error),
\* the abort listener (abort error; at once if the token is already
\* signalled); a callback that runs later never changes it. A token
\* signalled after the underlying outcome settled and before its reaction
\* ran therefore wins.
C14_FirstCallbackWins ==
    [][WrappedStep => \A i \in 1..Len(st) : SettledByFirstCallback(i)]_vars

C14_Witness ==
    /\ kind = "emitAsync"
    /\ Len(st) >= 1
    /\ st[1].under = "resolved"
    /\ st[1].then = "attached"
    /\ st[1].wrap = "rejected"
    /\ st[1].err = <<"Aborted", 1>>
    /\ st[1].run = "awaiting"

\* the step calls withTimeout for position i
WrappedNow(i) ==
    /\ kind = "emitAsync"
    /\ kind' = "emitAsync"
    /\ Len(st') = Len(st)
    /\ st[i].run = "none"
    /\ st'[i].run # "none"
    /\ st'[i].under # "threw"

\* C15: when withTimeout is called with a token that is already signalled,
\* the wrapped outcome is rejected with the abort error by that very call,
\* whether or not a timeout was supplied: the underlying outcome may still be
\* pending, no timer is set and no reaction is awaited.
C15_AlreadyAborted ==
    [][\A i \in 1..Len(st) :
          (WrappedNow(i) /\ options.signal /\ aborted)
              => /\ st'[i].wrap = "rejected"
                 /\ st'[i].err = <<"Aborted", i>>
                 /\ st'[i].timer = "none"
                 /\ st'[i].then = "none"]_vars

C15_Witness ==
    /\ kind = "emitAsync"
    /\ options.signal
    /\ options.timeOutMs = "100"
    /\ aborted
    /\ Len(st) = 2
    /\ st[1].under = "pending"
    /\ st[1].wrap = "rejected"
    /\ st[1].then = "none"
    /\ st[2].under = "resolved"
    /\ st[2].err = <<"Aborted", 2>>
    /\ st[2].then = "none"

\* C16: withTimeout leaks no timer: on every path (the underlying outcome
\* resolved or rejected, the timeout elapsed, the token was signalled or was
\* signalled beforehand), once the wrapped outcome has settled no timer the
\* wrapper set is still armed.
C16_NoTimerLeft ==
    (kind = "emitAsync" /\ ~PassThrough(options)) =>
        \A i \in 1..Len(st) :
            Settled(st[i].wrap) => st[i].timer # "armed"

C16_Witness ==
    /\ kind = "emitAsync"
    /\ options.timeOutMs = "100"
    /\ Len(st) = 2
    /\ st[1].wrap = "rejected"
    /\ st[1].err = <<"Aborted", 1>>
    /\ st[1].under = "pending"
    /\ st[1].timer = "cleared"
    /\ st[2].wrap = "resolved"
    /\ st[2].timer = "cleared"

\* C17: withTimeout leaks no abort subscription: on every path, also when
\* the underlying outcome never settles, once the wrapped outcome has settled
\* the listener the wrapper put on the token has been removed.
C17_NoSubscriptionLeft ==
    (kind = "emitAsync" /\ ~PassThrough(options)) =>
        \A i \in 1..Len(st) :
            Settled(st[i].wrap) => ~st[i].sub

\* emitAsync(event, { mode: 'sequential', timeOutMs: 100 }), no other option
\* given, with one listener in the snapshot whose completion has not settled
OnlyTimeoutOneSilentListener ==
    /\ kind = "emitAsync"
    /\ options = [DefaultOptions EXCEPT !.mode = "sequential",
                                        !.timeOutMs = "100"]
    /\ Len(snapshot) = 1
    /\ st[1].under = "pending"

\* C18: emitAsync with the options {mode: sequential, timeout T} and nothing
\* else, whose only listener never settles, fails with the timeout error.
C18_TimeoutFailsCall ==
    (OnlyTimeoutOneSilentListener /\ result # "running")
        => result = "rejected" /\ failure[1] = "Timeout"

\* a step inside one emitAsync call
CallStep ==
    /\ kind = "emitAsync"
    /\ kind' = "emitAsync"
    /\ Len(st') = Len(st)

\* runOne of position j is over: its outcome is recorded
Completed(j) == st[j].run \in {"ok", "rejected"}

\* C19: a timeout or a cancellation touches only the invocation it wraps. In
\* a concurrent call the timer of position i firing leaves every other
\* position as it was, the ones still in flight included; and in either
\* mode no step of the call, a timeout and an abort included, changes the
\* wrapped outcome, the runOne outcome or the sink entries of a position
\* that has completed.
C19_TimeoutFrame ==
    [][CallStep =>
          /\ \A i, j \in 1..Len(st) :
                 (Concurrent /\ TimerFiredNow(i) /\ j # i)
                     => st'[j] = st[j]
          /\ \A j \in 1..Len(st) :
                 Completed(j)
                     => /\ st'[j].wrap = st[j].wrap
                        /\ st'[j].err = st[j].err
                        /\ st'[j].run = st[j].run
          /\ IsPrefix(sinkLog, sinkLog')]_vars

C19_Witness ==
    /\ Concurrent
    /\ Len(st) = 2
    /\ st[1].timer = "fired"
    /\ st[1].err = <<"Timeout", 1>>
    /\ st[2].timer = "armed"
    /\ st[2].wrap = "pending"
    /\ st[2].under = "pending"

\* C20: in an emit call with a sink configured a listener failure reaches
\* the sink, with the event key and the listener's index, in both forms: the
\* handler raised, or the promise the handler returned was rejected later.
C20_EmitReportsBothForms ==
    (kind = "emit" /\ onError /\ ~sync /\ ~MicrotaskQueued) =>
        \A i \in 1..Len(st) :
            (st[i].under \in {"threw", "rejected"})
                => \E j \in 1..Len(sinkLog) :
                       /\ sinkLog[j].listenerIndex = i - 1
                       /\ sinkLog[j].event = name

\* the options make runOne pass a failure on to the caller
PassesOn == options.mode = "sequential" /\ options.stopOnError

\* C21: emitAsync intercepts listener failures in the same way with a sink
\* and without one: which listeners are invoked, what every runOne ends with
\* and the outcome of the call (success, or the error of the first failing
\* listener under sequential + stopOnError) are fixed by the snapshot, the
\* listeners' behaviour and the options alone; without a sink nothing is
\* reported.
C21_SameWithoutSink ==
    kind = "emitAsync" =>
        /\ IsPrefix(InvokedListeners, snapshot)
        /\ \A i \in 1..Len(st) :
               /\ Caught(i)
                      => st[i].run = IF PassesOn THEN "rejected" ELSE "ok"
               /\ st[i].run = "rejected" => Failed(i) /\ PassesOn
               /\ (Failed(i) /\ PassesOn) => Len(invoked) = i
        /\ result = "resolved"
               => /\ Len(invoked) = Len(snapshot)
                  /\ \A i \in 1..Len(st) : st[i].run = "ok"
                  /\ failure = NoErr
        /\ result = "rejected"
               => /\ PassesOn
                  /\ Failed(Len(invoked))
                  /\ failure = st[Len(invoked)].err
                  /\ \A j \in 1..(Len(invoked) - 1) : ~Failed(j)
        /\ ~onError => sinkLog = <<>>

C21_Witness ==
    /\ kind = "emitAsync"
    /\ ~onError
    /\ ~PassesOn
    /\ result = "resolved"
    /\ Len(snapshot) = 2
    /\ st[1].under = "threw"
    /\ st[2].wrap = "rejected"
    /\ st[2].run = "ok"

\* the state of the call in flight: all but the registry and the sink setting
callVars ==
    << kind, sync, name, specAtBegin, wildAtBegin, emitVars, invoked, sinkLog,
       result, failure, asyncVars >>

\* the step calls a handler (which may call register)
HandlerCalledNow == Len(invoked') = Len(invoked) + 1

\* C22: the registry is append-only: in every step no key disappears and the
\* sequence of every key before the step is a prefix of its sequence after
\* it, so no listener is ever removed or moved; and a step of emit or
\* emitAsync itself (any step of a call that is not a handler being called)
\* leaves the registry as it is.
C22_AppendOnly ==
    [][/\ DOMAIN listeners' = DOMAIN listeners
       /\ \A k \in Keys : IsPrefix(listeners[k], listeners'[k])
       /\ (callVars' # callVars /\ ~HandlerCalledNow)
              => listeners' = listeners]_vars

C22_Witness ==
    /\ kind = "emit"
    /\ result = "returned"
    /\ name = KEYA
    /\ Len(specAtBegin) = 1
    /\ Len(listeners[KEYA]) = 2
    /\ Len(listeners[STAR]) = 1
    /\ wildAtBegin = <<>>

\* l has been registered (under RegKey(l), the only key it is registered
\* under in SpecKeys)
Registered(l) == \E k \in DOMAIN listeners : l \in Range(listeners[k])

\* the specific listeners of the event that was just passed / the wildcard
\* listeners, going by the trimmed forms of their keys and of the event's name
SpecificByTrim ==
    { l \in Listeners : Registered(l) /\ Trim(RegKey(l)) = Trim(eventName) }

WildcardByTrim ==
    { l \in Listeners : Registered(l) /\ Trim(RegKey(l)) = STAR }

\* the sequence holds exactly the listeners of the set, each once
Holds(seq, set) == Range(seq) = set /\ Len(seq) = Cardinality(set)

\* C23: keys are compared by their trimmed form. When each listener l is
\* registered under the raw key RegKey(l) only, the specific listeners an
\* emit or emitAsync call of an event named n selects are exactly the
\* registered listeners with trim(RegKey(l)) = trim(n), and the wildcard
\* listeners it selects, for every n, are exactly the registered listeners
\* whose key has the trimmed form `*`; every stored key is a trimmed one.
C23_TrimmedKeys ==
    /\ \A k \in DOMAIN listeners : listeners[k] # <<>> => k = Trim(k)
    /\ (kind = "emit" /\ eventName # <<>>)
           => /\ Holds(arr, SpecificByTrim)
              /\ Holds(WildcardArray(listeners, wildcardRef), WildcardByTrim)
    /\ (kind = "emitAsync" /\ eventName # <<>>)
           => LET n == Cardinality(SpecificByTrim)
              IN  /\ Len(snapshot) = n + Cardinality(WildcardByTrim)
                  /\ Holds(SubSeq(snapshot, 1, n), SpecificByTrim)
                  /\ Holds(SubSeq(snapshot, n + 1, Len(snapshot)),
                           WildcardByTrim)

C23_Witness ==
    /\ kind = "emitAsync"
    /\ eventName = KEYA
    /\ snapshot = <<1, 2>>
    /\ listeners[KEYA] = <<1>>
    /\ listeners[STAR] = <<2>>

\* the handler of position i has been called
Started(i) == st[i].run # "none"

\* C24: in a sequential emitAsync call position 0 is started first and the
\* handler of a later position is started only when the wrapped outcome of
\* the position before it has settled (and its runOne completed), so at every
\* moment at most one wrapped outcome of the call is pending.
C24_OneAtATime ==
    Sequential =>
        /\ \A i \in 1..Len(st) :
               (Started(i) /\ i > 1)
                   => /\ Started(i - 1)
                      /\ WrappedSettled(i - 1)
                      /\ st[i - 1].run = "ok"
        /\ Len(invoked) >= 1 => invoked[1].idx = 0
        /\ Cardinality({ i \in 1..Len(st) : st[i].wrap = "pending" }) <= 1

C24_Witness ==
    /\ Sequential
    /\ Len(st) = 2
    /\ st[1].err = <<"Timeout", 1>>
    /\ st[1].under = "pending"
    /\ st[2].wrap = "pending"

\* C25: in a concurrent emitAsync call the handlers of all listeners of the
\* snapshot are started, in snapshot order, in one synchronous stretch,
\* before the call waits for any outcome: while the stretch lasts no
\* reaction to an outcome has run, and when it is over every position has
\* been started, also after a handler raised and after a failure went to the
\* sink.
C25_AllStartedBeforeWaiting ==
    Concurrent =>
        /\ IsPrefix(InvokedListeners, snapshot)
        /\ \A i \in 1..Len(invoked) : invoked[i].idx = i - 1
        /\ sync => \A i \in 1..Len(st) :
                       /\ st[i].then # "ran"
                       /\ st[i].run \in {"ok", "rejected"}
                              => st[i].under = "threw"
        /\ ~sync => /\ InvokedListeners = snapshot
                    /\ \A i \in 1..Len(st) : Started(i)

C25_Witness ==
    /\ Concurrent
    /\ onError
    /\ ~sync
    /\ result = "running"
    /\ Len(snapshot) = 2
    /\ st[1].under = "threw"
    /\ Len(sinkLog) = 1
    /\ st[2].run = "awaiting"
    /\ st[2].wrap = "pending"

\* C26: an emitAsync call given a positive finite timeOutMs eventually
\* settles, in both modes and whatever the handlers do (raise, settle, never
\* settle), provided timers that are due fire and the queued reactions run.
C26_TimeoutSettlesCall ==
    (kind = "emitAsync" /\ options.timeOutMs = "100")
        ~> (kind = "emitAsync" /\ result \in {"resolved", "rejected"})

C26_Witness ==
    /\ Concurrent
    /\ options.timeOutMs = "100"
    /\ ~options.signal
    /\ result = "resolved"
    /\ Len(st) = 2
    /\ st[1].under = "pending"
    /\ st[2].under = "pending"
    /\ st[1].err = <<"Timeout", 1>>
    /\ st[2].err = <<"Timeout", 2>>

\* C27: in a sequential emitAsync call with neither timeOutMs nor a token,
\* as long as the completion of the listener at position i has not settled
\* the call has not settled and no listener at a later position has been
\* invoked; so if it never settles, neither ever happens.
C27_StuckWithoutTimeout ==
    (Sequential /\ options.timeOutMs = "undefined" /\ ~options.signal) =>
        \A i \in 1..Len(st) :
            st[i].under = "pending"
                => /\ result = "running"
                   /\ Len(invoked) = i
                   /\ \A j \in (i + 1)..Len(st) : ~Started(j)

C27_Witness ==
    /\ Sequential
    /\ options.timeOutMs = "undefined"
    /\ ~options.signal
    /\ ~sync
    /\ Len(snapshot) = 2
    /\ st[1].under = "pending"
    /\ st[1].run = "awaiting"
    /\ result = "running"

\* the token was signalled before any wrapper of the call looked at it: it
\* is signalled and no position was ever subscribed to it
PreSignalled ==
    /\ kind = "emitAsync"
    /\ options.signal
    /\ aborted
    /\ \A i \in 1..Len(st) : st[i].then = "none"

\* the sink entries of position i, all of error kind `what`
ReportedOnceAs(i, what) ==
    /\ SinkCalls(i) = 1
    /\ \A j \in 1..Len(sinkLog) :
           sinkLog[j].listenerIndex = i - 1
               => sinkLog[j].err[1] = what /\ sinkLog[j].event = name

\* with a token already signalled the handlers still run, one per position
\* and in order; sequential + stopOnError stops after the first
HandlersStillRun ==
    /\ IsPrefix(InvokedListeners, snapshot)
    /\ (~PassesOn /\ result = "resolved")
           => InvokedListeners = snapshot
    /\ (PassesOn /\ snapshot # <<>> /\ result \in {"resolved", "rejected"})
           => /\ Len(invoked) = 1
              /\ result = "rejected"
    /\ PassesOn => Len(invoked) <= 1

\* C28 as stated: a token already signalled does not keep handlers from
\* running: unless the call is sequential with stopOnError every listener of
\* the snapshot is invoked once, and each one is reported to the sink with
\* the abort error; sequential with stopOnError invokes the first only.
C28_AllReportedAborted ==
    (PreSignalled /\ onError) =>
        /\ HandlersStillRun
        /\ \A i \in 1..Len(st) :
               (st[i].run \in {"ok", "rejected"})
                   => ReportedOnceAs(i, "Aborted")

\* C28 amended: a token already signalled does not keep handlers from
\* running: unless the call is sequential with stopOnError every listener of
\* the snapshot is invoked once, and each one is reported to the sink, with
\* the abort error if its handler returned and with the raised error if its
\* handler raised; sequential with stopOnError invokes the first only.
C28_AllReported ==
    (PreSignalled /\ onError) =>
        /\ HandlersStillRun
        /\ \A i \in 1..Len(st) :
               (st[i].run \in {"ok", "rejected"})
                   => ReportedOnceAs(i, IF st[i].under = "threw"
                                        THEN "thrown" ELSE "Aborted")

C28_Witness ==
    /\ PreSignalled
    /\ onError
    /\ ~PassesOn
    /\ result = "resolved"
    /\ Len(snapshot) = 2
    /\ st[1].under = "threw"
    /\ st[2].under = "pending"
    /\ st[2].err = <<"Aborted", 2>>
    /\ Len(sinkLog) = 2

\* the step is a late settlement for position i: its wrapped outcome was
\* settled by the timeout or the abort, and now its handler's completion
\* settles or the reaction to that settlement runs
LateSettlementNow(i) ==
    /\ Settled(st[i].wrap)
    /\ st[i].err[1] \in {"Timeout", "Aborted"}
    /\ \/ st[i].under = "pending" /\ Settled(st'[i].under)
       \/ ThenRanNow(i)

\* C29: when the wrapped outcome of a listener was settled by the timeout or
\* the abort and the handler's completion settles afterwards, resolved or
\* rejected, that late settlement does nothing to the dispatch: no sink
\* call is added, the wrapped outcome and the runOne outcome of the position
\* and the outcome of the call stay as they are, and no listener is invoked
\* again or skipped.
C29_LateSettlementIgnored ==
    [][CallStep =>
          \A i \in 1..Len(st) :
              LateSettlementNow(i)
                  => /\ sinkLog' = sinkLog
                     /\ result' = result
                     /\ failure' = failure
                     /\ invoked' = invoked
                     /\ next' = next
                     /\ st'[i].wrap = st[i].wrap
                     /\ st'[i].err = st[i].err
                     /\ st'[i].run = st[i].run]_vars

C29_Witness ==
    /\ kind = "emitAsync"
    /\ onError
    /\ result = "resolved"
    /\ Len(st) = 1
    /\ st[1].err = <<"Timeout", 1>>
    /\ st[1].under = "rejected"
    /\ st[1].then = "ran"
    /\ Len(sinkLog) = 1

====
